---- MODULE Spec2Model ----
(***************************************************************************)
(* Model of raspberry_pi_telegram_bot.py: the Telegram command handlers,   *)
(* the relay pins they drive through RPi.GPIO, the LCD they write, and the *)
(* supervising main_loop with its destroy() recovery.                      *)
(*                                                                         *)
(* Every handler is computed as the ordered list of external calls it      *)
(* makes (GPIO.output, lcd.clear, lcd.message, bot.reply_to,               *)
(* bot.send_message, bot.answer_callback_query) up to the point where it   *)
(* returns or raises; the pins and the display are then updated by         *)
(* replaying that list, so that the recorded order is the order in which   *)
(* the state changed.                                                      *)
(***************************************************************************)
EXTENDS Integers, Sequences, FiniteSets, TLC

VARIABLES
    pc,            \* position of the main thread in __main__ / main_loop
    gpio_mode,     \* RPi.GPIO numbering mode: "UNKNOWN" or "BCM"
    direction,     \* per BCM pin: "NONE" (not set up) or "OUT"
    level,         \* level driven on each BCM pin that is set up as an output
    lcd,           \* texts written to the display since its last clear
    mcp_backlight, \* PCF8574 pin 3 (the LCD backlight)
    lcd_backlight, \* the attribute lcd.backlight
    worker_exc,    \* exception raised by a handler and not yet re-raised by polling
    last,          \* record of the most recently handled update
    prev,          \* record of the update handled before it
    faults,        \* number of times bot.polling has raised
    exit_code,     \* -1 while the process runs, else the process exit code
    workers        \* per telebot worker thread: the toggle it is in the middle of

vars == <<pc, gpio_mode, direction, level, lcd, mcp_backlight, lcd_backlight,
          worker_exc, last, prev, faults, exit_code, workers>>

(***************************************************************************)
(* Bounds                                                                  *)
(***************************************************************************)
\* bot.polling may raise any number of times; the model counts up to here.
MaxFaults == 2

\* A hardware fault hits one of the first MaxFaultCall hardware calls of a handler.
MaxFaultCall == 1

(***************************************************************************)
(* Constants of the program                                                *)
(***************************************************************************)
HIGH == 1
LOW == 0

\* telebot.TeleBot(token, threaded=True, num_threads=2): the defaults in use.
num_threads == 2

\* Dictionary of relationship between relay identification and BCM pin
dict_relay_bcm == (1 :> 23) @@ (2 :> 24) @@ (3 :> 25) @@ (4 :> 16)

\* Mutant: the table written with relays 3 and 4 in the other order.
dict_relay_bcm_keys_reordered == <<1, 2, 4, 3>>

\* Iteration order of dict_relay_bcm.items(): insertion order.
dict_relay_bcm_keys == <<1, 2, 3, 4>>

\* Mutant: the last GPIO.setup names pin 26 instead of pin 16.
setup_pins_typo == {23, 24, 25, 26}

\* The channels initialize_relay() sets up.
setup_pins == {23, 24, 25, 16}

Pins == setup_pins \cup {dict_relay_bcm[r] : r \in DOMAIN dict_relay_bcm}

em_status_changed == "thumbsup"
em_status_on == "red_circle"
em_status_off == "black_circle"

(***************************************************************************)
(* External calls made by the handlers                                     *)
(***************************************************************************)
Ev(op, text, relay, emoji, pin, value) ==
    [op |-> op, text |-> text, relay |-> relay, emoji |-> emoji,
     pin |-> pin, value |-> value]

GPIO_output(pin, value) == Ev("GPIO.output", "", 0, "", pin, value)
lcd_clear == Ev("lcd.clear", "", 0, "", 0, 0)
lcd_message(text, relay) == Ev("lcd.message", text, relay, "", 0, 0)
bot_reply_to(text) == Ev("bot.reply_to", text, 0, "", 0, 0)
bot_send_message(text, relay, emoji) == Ev("bot.send_message", text, relay, emoji, 0, 0)
bot_answer_callback_query == Ev("bot.answer_callback_query", "", 0, "", 0, 0)

\* What a handler did: the calls it made, and the exception it raised ("none"
\* when it returned).
Result(events, exc) == [events |-> events, exc |-> exc]

\* GPIO.input(channel): the level of the line; RuntimeError when no numbering
\* mode is set or the channel is not set up.
GPIO_input(pin, gm, dir, lv) ==
    IF gm = "BCM" /\ pin \in DOMAIN dir /\ dir[pin] = "OUT" /\ pin \in DOMAIN lv
    THEN [ok |-> TRUE, val |-> lv[pin]]
    ELSE [ok |-> FALSE, val |-> 0]

(***************************************************************************)
(* Text command handlers                                                   *)
(***************************************************************************)
\* /start: last_name is None for a Telegram user without a last name, and
\* first_name + ' ' + None raises TypeError.
start_command(has_last_name) ==
    LET head == << bot_reply_to("Hi! I am the Raspberry Pi 3 Model B+ Telegram Bot"),
                   lcd_clear,
                   lcd_message("Welcome on Bot!", 0) >>
    IN  IF has_last_name
        THEN Result(Append(head, lcd_message("first_name last_name", 0)), "none")
        ELSE Result(head, "TypeError")

help_command ==
    Result(<< bot_send_message("This bot implements the architecture", 0, ""),
              lcd_clear,
              lcd_message("Request Command", 0),
              lcd_message("/help", 0) >>, "none")

\* Mutant: the command switches relay 1 on as well as offering the keyboard.
set_relay_status_command_switching ==
    Result(<< bot_send_message("Select one of the Relays", 0, "bulb"),
              GPIO_output(23, LOW),
              lcd_clear,
              lcd_message("Request Command", 0),
              lcd_message("/set_relay_status", 0) >>, "none")

set_relay_status_command ==
    Result(<< bot_send_message("Select one of the Relays", 0, "bulb"),
              lcd_clear,
              lcd_message("Request Command", 0),
              lcd_message("/set_relay_status", 0) >>, "none")

get_schema_design_command ==
    Result(<< bot_reply_to("This is the wiring diagram"),
              lcd_clear,
              lcd_message("Request Command", 0),
              lcd_message("/get_schema_design", 0) >>, "none")

\* Mutant: the status query reads the line as active-high.
status_emoji_active_high(v) == IF v # 0 THEN em_status_on ELSE em_status_off

\* The emoji get_relay_status_command puts in the line of a relay whose pin
\* reads v.
status_emoji(v) == IF v # 0 THEN em_status_off ELSE em_status_on

\* Mutant: the HIGH branch carries the GPIO.output(pin, LOW) of the toggle.
RECURSIVE status_loop_writing(_, _, _, _)
status_loop_writing(ids, gm, dir, lv) ==
    IF ids = << >> THEN Result(<< >>, "none")
    ELSE LET relay_id == Head(ids)
             bcm_value == dict_relay_bcm[relay_id]
             read == GPIO_input(bcm_value, gm, dir, lv)
         IN  IF ~read.ok THEN Result(<< >>, "RuntimeError")
             ELSE LET rest == status_loop_writing(Tail(ids), gm, dir, lv)
                      line == bot_send_message("Status of the RelayId", relay_id,
                                               status_emoji(read.val))
                  IN  Result((IF read.val # 0
                              THEN << GPIO_output(bcm_value, LOW), line >>
                              ELSE << line >>) \o rest.events, rest.exc)

\* The for loop of get_relay_status_command over the relays ids (a sequence).
RECURSIVE status_loop(_, _, _, _)
status_loop(ids, gm, dir, lv) ==
    IF ids = << >> THEN Result(<< >>, "none")
    ELSE LET relay_id == Head(ids)
             bcm_value == dict_relay_bcm[relay_id]
             read == GPIO_input(bcm_value, gm, dir, lv)
         IN  IF ~read.ok THEN Result(<< >>, "RuntimeError")
             ELSE LET rest == status_loop(Tail(ids), gm, dir, lv)
                  IN  Result(<< bot_send_message("Status of the RelayId", relay_id,
                                                 status_emoji(read.val)) >>
                             \o rest.events, rest.exc)

get_relay_status_command(gm, dir, lv) ==
    LET loop == status_loop(dict_relay_bcm_keys, gm, dir, lv)
    IN  IF loop.exc # "none" THEN loop
        ELSE Result(loop.events \o << lcd_clear,
                                      lcd_message("Request Command", 0),
                                      lcd_message("/get_relay_status", 0) >>, "none")

(***************************************************************************)
(* Callback (inline button) handler                                        *)
(***************************************************************************)
\* Callback data is a Python str, modelled as a sequence of characters.
relay_prefix == << "r", "e", "l", "a", "y", "-" >>

\* str.startswith
startswith(s, p) == Len(s) >= Len(p) /\ SubSeq(s, 1, Len(p)) = p

Digits == << "0", "1", "2", "3", "4", "5", "6", "7", "8", "9" >>

IsDigit(c) == \E i \in DOMAIN Digits : Digits[i] = c

DigitVal(c) == (CHOOSE i \in DOMAIN Digits : Digits[i] = c) - 1

RECURSIVE DigitsVal(_)
DigitsVal(s) ==
    IF s = << >> THEN 0
    ELSE 10 * DigitsVal(SubSeq(s, 1, Len(s) - 1)) + DigitVal(s[Len(s)])

\* int(str): an optional sign and at least one decimal digit, else ValueError.
int(s) ==
    LET signed == s # << >> /\ Head(s) \in {"+", "-"}
        body == IF signed THEN Tail(s) ELSE s
    IN  IF body = << >> \/ \E i \in DOMAIN body : ~IsDigit(body[i])
        THEN [ok |-> FALSE, val |-> 0]
        ELSE [ok |-> TRUE,
              val |-> IF signed /\ Head(s) = "-" THEN 0 - DigitsVal(body)
                      ELSE DigitsVal(body)]

\* Mutant: the emoji of the two branches exchanged.
send_set_relay_status_result_swapped(relay_id, active) ==
    << bot_send_message("Changed status of the RelayId", relay_id,
                        IF active THEN em_status_off ELSE em_status_on) >>

\* send_set_relay_status_result(message, relay_id, active)
send_set_relay_status_result(relay_id, active) ==
    << bot_send_message("Changed status of the RelayId", relay_id,
                        IF active THEN em_status_on ELSE em_status_off) >>

\* Mutant: the else branch writes LOW again, so a relay is never switched off.
toggle_branch_stuck_on(relay_id, pin, v) ==
    IF v # 0
    THEN [events |-> << GPIO_output(pin, LOW),
                        lcd_clear,
                        lcd_message("Act. Relay", relay_id),
                        lcd_message("In listening...", 0) >>,
          active |-> TRUE]
    ELSE [events |-> << lcd_clear,
                        lcd_message("De Act. Relay", relay_id),
                        lcd_message("In listening...", 0),
                        GPIO_output(pin, LOW) >>,
          active |-> FALSE]

\* The if/else of set_relay_status_callback on the level v read from pin.
toggle_branch(relay_id, pin, v) ==
    IF v # 0
    THEN [events |-> << GPIO_output(pin, LOW),
                        lcd_clear,
                        lcd_message("Act. Relay", relay_id),
                        lcd_message("In listening...", 0) >>,
          active |-> TRUE]
    ELSE [events |-> << lcd_clear,
                        lcd_message("De Act. Relay", relay_id),
                        lcd_message("In listening...", 0),
                        GPIO_output(pin, HIGH) >>,
          active |-> FALSE]

\* Mutant: the result is sent before the callback query is answered.
toggle_answer_reply_first(relay_id, active) ==
    send_set_relay_status_result(relay_id, active) \o << bot_answer_callback_query >>

\* The tail of set_relay_status_callback, after the if/else.
toggle_answer(relay_id, active) ==
    << bot_answer_callback_query >> \o send_set_relay_status_result(relay_id, active)

\* Mutant: the display announces the change before the relay id is looked up.
set_relay_status_callback_display_first(data, gm, dir, lv) ==
    LET parsed == int(SubSeq(data, 7, Len(data)))
        relay_id == parsed.val
        shown == << lcd_clear, lcd_message("Changing Relay", relay_id) >>
    IN  IF ~parsed.ok THEN Result(<< >>, "ValueError")
        ELSE IF relay_id \notin DOMAIN dict_relay_bcm THEN Result(shown, "KeyError")
        ELSE LET pin == dict_relay_bcm[relay_id]
                 read == GPIO_input(pin, gm, dir, lv)
             IN  IF ~read.ok THEN Result(shown, "RuntimeError")
                 ELSE LET br == toggle_branch(relay_id, pin, read.val)
                      IN  Result(shown \o br.events \o toggle_answer(relay_id, br.active),
                                 "none")

set_relay_status_callback(data, gm, dir, lv) ==
    LET parsed == int(SubSeq(data, 7, Len(data)))
        relay_id == parsed.val
    IN  IF ~parsed.ok THEN Result(<< >>, "ValueError")
        ELSE IF relay_id \notin DOMAIN dict_relay_bcm THEN Result(<< >>, "KeyError")
        ELSE LET pin == dict_relay_bcm[relay_id]
                 read == GPIO_input(pin, gm, dir, lv)
             IN  IF ~read.ok THEN Result(<< >>, "RuntimeError")
                 ELSE LET br == toggle_branch(relay_id, pin, read.val)
                      IN  Result(br.events \o toggle_answer(relay_id, br.active), "none")

\* Mutant: every callback is taken for a relay selection.
inline_query_callback_unfiltered(data, gm, dir, lv) ==
    set_relay_status_callback(data, gm, dir, lv)

inline_query_callback(data, gm, dir, lv) ==
    IF startswith(data, relay_prefix)
    THEN set_relay_status_callback(data, gm, dir, lv)
    ELSE Result(<< >>, "none")

(***************************************************************************)
(* Effect of a handler's calls on the pins and on the display              *)
(***************************************************************************)
RECURSIVE ApplyGPIO(_, _)
ApplyGPIO(events, lv) ==
    IF events = << >> THEN lv
    ELSE LET e == Head(events)
         IN  ApplyGPIO(Tail(events),
                       IF e.op = "GPIO.output" /\ e.pin \in DOMAIN lv
                       THEN [lv EXCEPT ![e.pin] = e.value]
                       ELSE lv)

RECURSIVE ApplyLCD(_, _)
ApplyLCD(events, shown) ==
    IF events = << >> THEN shown
    ELSE LET e == Head(events)
         IN  ApplyLCD(Tail(events),
                      CASE e.op = "lcd.clear" -> << >>
                        [] e.op = "lcd.message" -> Append(shown, <<e.text, e.relay>>)
                        [] OTHER -> shown)

(***************************************************************************)
(* State                                                                   *)
(***************************************************************************)
\* No pin is driven: the levels before initialize_relay() and after GPIO.cleanup().
NoLevels == [p \in {} |-> HIGH]

\* Callback data the Telegram client may send back.
CallbackData ==
    { relay_prefix \o << "1" >>, relay_prefix \o << "2" >>,
      relay_prefix \o << "3" >>, relay_prefix \o << "4" >>,
      relay_prefix \o << "5" >>, relay_prefix \o << "0", "2" >>,
      relay_prefix \o << "x" >>, << "h", "e", "l", "p" >> }

\* The record kept of a handled update: the handler, the callback data, the
\* calls made and the exception raised, the number of times bot.polling had
\* raised before it, whether each relay pin could be read before it, and the
\* pin levels before and after it.
Update(cmd, data, res, epoch, ready, pre, post) ==
    [cmd |-> cmd, data |-> data, events |-> res.events, exc |-> res.exc,
     epoch |-> epoch, ready |-> ready, pre |-> pre, post |-> post]

NoUpdate ==
    Update("none", << >>, Result(<< >>, "none"), 0, FALSE,
           NoLevels, NoLevels)

\* The worker threads of the TeleBot: telebot.TeleBot(TOKEN) keeps the library's
\* default of a threaded bot with two worker threads, which run the handlers.
Workers == 1..num_threads

\* A worker that runs no handler.
IdleWorker == [at |-> "idle", data |-> << >>, val |-> 0, pre |-> NoLevels]

Init ==
    /\ pc = "init_relay"
    /\ gpio_mode = "UNKNOWN"
    /\ direction = [p \in Pins |-> "NONE"]
    /\ level = NoLevels
    /\ lcd = << >>
    /\ mcp_backlight = FALSE
    /\ lcd_backlight = TRUE
    /\ worker_exc = "none"
    /\ last = NoUpdate
    /\ prev = NoUpdate
    /\ faults = 0
    /\ exit_code = -1
    /\ workers = [w \in Workers |-> IdleWorker]

(***************************************************************************)
(* Start-up and shutdown                                                   *)
(***************************************************************************)
\* initialize_relay(): GPIO.setmode(BCM) and GPIO.setup(pin, OUT, initial=HIGH)
initialize_relay ==
    /\ pc = "init_relay"
    /\ gpio_mode' = "BCM"
    /\ direction' = [p \in Pins |-> IF p \in setup_pins THEN "OUT" ELSE direction[p]]
    /\ level' = [p \in DOMAIN level \cup setup_pins |->
                     IF p \in setup_pins THEN HIGH ELSE level[p]]
    /\ pc' = "init_lcd"
    /\ UNCHANGED <<workers, lcd, mcp_backlight, lcd_backlight, worker_exc, last, prev,
                   faults, exit_code>>

\* initialize_lcd(): backlight on, lcd.begin, the start-up banner
initialize_lcd ==
    /\ pc = "init_lcd"
    /\ mcp_backlight' = TRUE
    /\ lcd' = << <<"Rasp-Pi Telegram", 0>>, <<"Bot in action...", 0>> >>
    /\ pc' = "polling"
    /\ UNCHANGED <<workers, gpio_mode, direction, level, lcd_backlight, worker_exc, last,
                   prev, faults, exit_code>>

\* GPIO.cleanup(): every channel that was set up goes back to an input and is
\* forgotten, and the numbering mode is reset.  A released line is no longer
\* driven by the program.
GPIO_cleanup ==
    /\ gpio_mode' = "UNKNOWN"
    /\ direction' = [p \in Pins |-> "NONE"]
    /\ level' = NoLevels

\* destroy()
destroy ==
    /\ GPIO_cleanup
    /\ lcd' = << <<"Shutdown...", 0>>, <<"I'm not active", 0>> >>
    /\ lcd_backlight' = FALSE
    /\ UNCHANGED mcp_backlight

(***************************************************************************)
(* Handling of one update while bot.polling runs                           *)
(***************************************************************************)
RelaysReady ==
    \A r \in DOMAIN dict_relay_bcm :
        GPIO_input(dict_relay_bcm[r], gpio_mode, direction, level).ok

Handle(cmd, data, res) ==
    /\ pc = "polling"
    /\ level' = ApplyGPIO(res.events, level)
    /\ lcd' = ApplyLCD(res.events, lcd)
    /\ worker_exc' = IF res.exc # "none" THEN res.exc ELSE worker_exc
    /\ prev' = last
    /\ last' = Update(cmd, data, res, faults, RelaysReady, level, level')
    /\ UNCHANGED <<workers, pc, gpio_mode, direction, mcp_backlight, lcd_backlight,
                   faults, exit_code>>

Start == \E has_last_name \in BOOLEAN : Handle("start", << >>, start_command(has_last_name))

Help == Handle("help", << >>, help_command)

SetRelayStatus == Handle("set_relay_status", << >>, set_relay_status_command)

GetRelayStatus ==
    Handle("get_relay_status", << >>,
           get_relay_status_command(gpio_mode, direction, level))

GetSchemaDesign == Handle("get_schema_design", << >>, get_schema_design_command)

Callback ==
    \E data \in CallbackData :
        Handle("callback", data, inline_query_callback(data, gpio_mode, direction, level))

(***************************************************************************)
(* main_loop and __main__                                                  *)
(***************************************************************************)
\* bot.polling raises: a failure of the channel, or the exception of a handler.
PollingRaises ==
    /\ pc = "polling"
    /\ faults < MaxFaults
    /\ pc' = "recovering"
    /\ faults' = faults + 1
    /\ worker_exc' = "none"
    /\ UNCHANGED <<workers, gpio_mode, direction, level, lcd, mcp_backlight, lcd_backlight,
                   last, prev, exit_code>>

\* Mutant: the except clause gives up after destroy() instead of looping.
Recover_then_exit ==
    /\ pc = "recovering"
    /\ destroy
    /\ pc' = "exited"
    /\ exit_code' = 1
    /\ UNCHANGED <<workers, worker_exc, last, prev, faults>>

\* except Exception: destroy(), print, and round the while loop to bot.polling
Recover ==
    /\ pc = "recovering"
    /\ destroy
    /\ pc' = "polling"
    /\ UNCHANGED <<workers, worker_exc, last, prev, faults, exit_code>>

\* Mutant: a return of bot.polling is treated like an error.
PollingReturns_as_error ==
    /\ pc = "polling"
    /\ pc' = "recovering"
    /\ UNCHANGED <<workers, gpio_mode, direction, level, lcd, mcp_backlight, lcd_backlight,
                   worker_exc, last, prev, faults, exit_code>>

\* bot.polling returns without raising: while 1: time.sleep(3)
PollingReturns ==
    /\ pc = "polling"
    /\ pc' = "sleeping"
    /\ UNCHANGED <<workers, gpio_mode, direction, level, lcd, mcp_backlight, lcd_backlight,
                   worker_exc, last, prev, faults, exit_code>>

\* Mutant: __main__ exits without calling destroy().
KeyboardInterrupt_no_destroy ==
    /\ pc \in {"init_relay", "init_lcd", "polling", "sleeping", "recovering"}
    /\ pc' = "exited"
    /\ exit_code' = 0
    /\ UNCHANGED <<workers, gpio_mode, direction, level, lcd, mcp_backlight, lcd_backlight,
                   worker_exc, last, prev, faults>>

\* KeyboardInterrupt reaches __main__: destroy() and sys.exit(0)
KeyboardInterrupt ==
    /\ pc \in {"init_relay", "init_lcd", "polling", "sleeping", "recovering"}
    /\ destroy
    /\ pc' = "exited"
    /\ exit_code' = 0
    /\ UNCHANGED <<workers, worker_exc, last, prev, faults>>

Next ==
    \/ initialize_relay
    \/ initialize_lcd
    \/ Start
    \/ Help
    \/ SetRelayStatus
    \/ GetRelayStatus
    \/ GetSchemaDesign
    \/ Callback
    \/ PollingRaises
    \/ Recover
    \/ PollingReturns
    \/ KeyboardInterrupt

Spec == Init /\ [][Next]_vars

(***************************************************************************)
(* Hardware faults: an I2C write to the display or a GPIO write fails      *)
(***************************************************************************)
\* The calls that reach the hardware.
HardwareOps == {"GPIO.output", "lcd.clear", "lcd.message"}

\* The handler outcome res when its k-th call raises instead of returning.
Faulted(res, k) == Result(SubSeq(res.events, 1, k - 1), "OSError")

\* What each handler would do with the update it is given, in this state.
Handlings ==
    {<<"start", << >>, start_command(n)>> : n \in BOOLEAN}
    \cup {<<"help", << >>, help_command>>,
          <<"set_relay_status", << >>, set_relay_status_command>>,
          <<"get_relay_status", << >>,
            get_relay_status_command(gpio_mode, direction, level)>>,
          <<"get_schema_design", << >>, get_schema_design_command>>}
    \cup {<<"callback", d, inline_query_callback(d, gpio_mode, direction, level)>> :
             d \in CallbackData}

\* The positions in a handler's calls of its first n hardware calls.
FirstHardwareCalls(events, n) ==
    {k \in DOMAIN events :
        /\ events[k].op \in HardwareOps
        /\ Cardinality({j \in 1..k : events[j].op \in HardwareOps}) <= n}

\* A handler is cut short by a failing hardware call; the exception is the
\* handler's, and reaches main_loop through bot.polling like any other.
HandlerHardwareFault ==
    \E h \in Handlings :
        \E k \in FirstHardwareCalls(h[3].events, MaxFaultCall) :
            Handle(h[1], h[2], Faulted(h[3], k))

\* destroy() cut short by a failing display call: GPIO.cleanup() is done, the
\* display is left somewhere between its old content and the shutdown text.
destroy_fault ==
    /\ GPIO_cleanup
    /\ lcd' \in {lcd, << >>, << <<"Shutdown...", 0>> >>}
    /\ UNCHANGED <<mcp_backlight, lcd_backlight>>

\* The exception of destroy() leaves the except clause of main_loop; __main__
\* catches KeyboardInterrupt only, so the interpreter ends with status 1.
RecoverHardwareFault ==
    /\ pc = "recovering"
    /\ destroy_fault
    /\ pc' = "exited"
    /\ exit_code' = 1
    /\ UNCHANGED <<workers, worker_exc, last, prev, faults>>

\* The exception of destroy() leaves the except clause of __main__ before
\* sys.exit(0).
InterruptHardwareFault ==
    /\ pc \in {"init_relay", "init_lcd", "polling", "sleeping", "recovering"}
    /\ destroy_fault
    /\ pc' = "exited"
    /\ exit_code' = 1
    /\ UNCHANGED <<workers, worker_exc, last, prev, faults>>

HwNext ==
    \/ Next
    \/ HandlerHardwareFault
    \/ RecoverHardwareFault
    \/ InterruptHardwareFault

HwSpec == Init /\ [][HwNext]_vars

(***************************************************************************)
(* Relay selections handled on the worker threads                          *)
(***************************************************************************)
\* The relay selections sent while two workers are followed.
ThreadedData == { relay_prefix \o << "1" >>, relay_prefix \o << "2" >> }

\* A worker runs set_relay_status_callback up to and including the
\* GPIO.input of its if: it holds the level it has read.
toggle_read ==
    \E w \in Workers, data \in ThreadedData :
        LET parsed == int(SubSeq(data, 7, Len(data)))
        IN  /\ pc = "polling"
            /\ workers[w].at = "idle"
            /\ startswith(data, relay_prefix)
            /\ parsed.ok
            /\ parsed.val \in DOMAIN dict_relay_bcm
            /\ LET read == GPIO_input(dict_relay_bcm[parsed.val], gpio_mode,
                                      direction, level)
               IN  /\ read.ok
                   /\ workers' = [workers EXCEPT ![w] =
                                     [at |-> "read", data |-> data,
                                      val |-> read.val, pre |-> level]]
            /\ UNCHANGED <<pc, gpio_mode, direction, level, lcd, mcp_backlight,
                           lcd_backlight, worker_exc, last, prev, faults, exit_code>>

\* The worker runs the branch chosen by the level it has read, answers the
\* callback query and sends the result.
toggle_write ==
    \E w \in Workers :
        /\ pc = "polling"
        /\ workers[w].at = "read"
        /\ LET data == workers[w].data
               relay_id == int(SubSeq(data, 7, Len(data))).val
               br == toggle_branch(relay_id, dict_relay_bcm[relay_id], workers[w].val)
               res == Result(br.events \o toggle_answer(relay_id, br.active), "none")
           IN  /\ level' = ApplyGPIO(res.events, level)
               /\ lcd' = ApplyLCD(res.events, lcd)
               /\ prev' = last
               /\ last' = Update("callback", data, res, faults, TRUE,
                                 workers[w].pre, level')
        /\ workers' = [workers EXCEPT ![w] = IdleWorker]
        /\ UNCHANGED <<pc, gpio_mode, direction, mcp_backlight, lcd_backlight,
                       worker_exc, faults, exit_code>>

ThreadedNext ==
    \/ initialize_relay
    \/ initialize_lcd
    \/ toggle_read
    \/ toggle_write

ThreadedSpec == Init /\ [][ThreadedNext]_vars

(***************************************************************************)
(* Vocabulary of the properties                                            *)
(***************************************************************************)
RelayIds == DOMAIN dict_relay_bcm

\* u is a ToggleRelay: a callback whose data is 'relay-' followed by an integer.
IsToggle(u) ==
    /\ u.cmd = "callback"
    /\ startswith(u.data, relay_prefix)
    /\ int(SubSeq(u.data, 7, Len(u.data))).ok

ToggleId(u) == int(SubSeq(u.data, 7, Len(u.data))).val

\* u is a ToggleRelay(r) whose handler ran to its end.
Toggled(u, r) == IsToggle(u) /\ ToggleId(u) = r /\ u.exc = "none"

ReplyOps == {"bot.reply_to", "bot.send_message"}
AckOps == {"bot.answer_callback_query"}
DisplayOps == {"lcd.clear", "lcd.message"}
PinWriteOps == {"GPIO.output"}

IsReply(e) == e.op \in ReplyOps
IsAck(e) == e.op \in AckOps
IsDisplay(e) == e.op \in DisplayOps
IsPinWrite(e) == e.op \in PinWriteOps

Replies(u) == SelectSeq(u.events, IsReply)
Acks(u) == SelectSeq(u.events, IsAck)
Displays(u) == SelectSeq(u.events, IsDisplay)

\* This step is the handling of one update by the handler cmd.
Handled(cmd) ==
    /\ pc = "polling" /\ pc' = "polling"
    /\ prev' = last
    /\ last'.cmd = cmd

\* Every relay pin is an output driven at the safe default level.
AllRelaysSafe ==
    \A r \in RelayIds :
        /\ gpio_mode = "BCM"
        /\ direction[dict_relay_bcm[r]] = "OUT"
        /\ dict_relay_bcm[r] \in DOMAIN level
        /\ level[dict_relay_bcm[r]] = HIGH

(***************************************************************************)
(* C1.  A ToggleRelay whose relay id is outside the configured set is      *)
(* answered with a plain-text reply, and its handler raises no exception.  *)
(***************************************************************************)
C1_UnknownRelayReplied ==
    (IsToggle(last) /\ ToggleId(last) \notin RelayIds)
        => (last.exc = "none" /\ Replies(last) # << >>)

C3_SafeAfterRecovery ==
    (pc = "polling" /\ faults > 0) => AllRelaysSafe

(***************************************************************************)
(* C4 as stated.  In the calls of every handled command, the               *)
(* acknowledgment comes before the reply and the reply before every clear  *)
(* or write of the display.                                                *)
(***************************************************************************)
\* In u, every call whose name is in A comes before every call whose name is in B.
Precede(u, A, B) ==
    \A i, j \in DOMAIN u.events :
        (u.events[i].op \in A /\ u.events[j].op \in B) => i < j

TextCommands ==
    {"start", "help", "set_relay_status", "get_relay_status", "get_schema_design"}

ReportedOn(u) == Replies(u)[1].emoji = em_status_on

C5_ToggleInvolution ==
    \A r \in RelayIds :
        (Toggled(prev, r) /\ Toggled(last, r)) =>
            /\ last.pre = prev.post
            /\ last.post[dict_relay_bcm[r]] = prev.pre[dict_relay_bcm[r]]
            /\ Len(Replies(last)) = 1
            /\ Replies(last)[1].emoji \in {em_status_on, em_status_off}
            /\ ReportedOn(last) <=> (prev.pre[dict_relay_bcm[r]] = LOW)

\* Relay 3 was energized, then toggled twice.
C5_Witness ==
    /\ Toggled(prev, 3) /\ Toggled(last, 3)
    /\ prev.pre[dict_relay_bcm[3]] = LOW
    /\ level = last.post

(***************************************************************************)
(* C6.  A completed ToggleRelay(r) changes the level of the pin of r and   *)
(* of no other pin; when every relay was off before it, the pin of r is    *)
(* LOW after it and the reply names r with the "on" marker.                *)
(***************************************************************************)
AllOff(lv) == \A r \in RelayIds : dict_relay_bcm[r] \in DOMAIN lv /\ lv[dict_relay_bcm[r]] = HIGH

C6_ToggleFrame ==
    \A r \in RelayIds :
        Toggled(last, r) =>
            /\ DOMAIN last.post = DOMAIN last.pre
            /\ last.post[dict_relay_bcm[r]] # last.pre[dict_relay_bcm[r]]
            /\ \A p \in DOMAIN last.pre :
                  p # dict_relay_bcm[r] => last.post[p] = last.pre[p]
            /\ AllOff(last.pre) =>
                  /\ last.post[dict_relay_bcm[r]] = LOW
                  /\ Len(Replies(last)) = 1
                  /\ Replies(last)[1].relay = r
                  /\ Replies(last)[1].emoji = em_status_on

\* ToggleRelay(2) as the first command after start-up.
C6_Witness ==
    /\ Toggled(last, 2)
    /\ prev.cmd = "none"
    /\ AllOff(last.pre)
    /\ level = last.post

(***************************************************************************)
(* C7.  GetRelayStatus makes no pin write and leaves every pin level as    *)
(* it was; two GetRelayStatus in succession (no other command and no       *)
(* recovery between them) send the same status lines.                      *)
(***************************************************************************)
C7_StatusReadOnly ==
    last.cmd = "get_relay_status" =>
        /\ last.post = last.pre
        /\ SelectSeq(last.events, IsPinWrite) = << >>
        /\ (prev.cmd = "get_relay_status" /\ prev.epoch = last.epoch)
              => Replies(last) = Replies(prev)

\* Two status queries in succession while relay 2 is energized.
C7_Witness ==
    /\ last.cmd = "get_relay_status" /\ prev.cmd = "get_relay_status"
    /\ last.exc = "none"
    /\ last.pre[dict_relay_bcm[2]] = LOW
    /\ level = last.post

(***************************************************************************)
(* C8.  With the four relay pins set up, GetRelayStatus sends exactly one  *)
(* line per relay id, in the order 1, 2, 3, 4, and the line of an id says  *)
(* "on" exactly when its pin reads LOW and "off" exactly when it reads     *)
(* HIGH.                                                                   *)
(***************************************************************************)
C8_StatusLines ==
    (last.cmd = "get_relay_status" /\ last.ready) =>
        /\ last.exc = "none"
        /\ Len(Replies(last)) = 4
        /\ \A i \in 1..4 :
              /\ Replies(last)[i].relay = i
              /\ Replies(last)[i].emoji = em_status_on
                    <=> last.pre[dict_relay_bcm[i]] = LOW
              /\ Replies(last)[i].emoji = em_status_off
                    <=> last.pre[dict_relay_bcm[i]] = HIGH

\* The status query with relay 2 on and relays 1, 3, 4 off.
C8_Witness ==
    /\ last.cmd = "get_relay_status" /\ last.ready
    /\ last.pre[dict_relay_bcm[1]] = HIGH
    /\ last.pre[dict_relay_bcm[2]] = LOW
    /\ last.pre[dict_relay_bcm[3]] = HIGH
    /\ last.pre[dict_relay_bcm[4]] = HIGH

(***************************************************************************)
(* C9.  The state named by the reply of a completed ToggleRelay(r)         *)
(* (on / off) and by its display text (Act. / De Act.) is "on" exactly     *)
(* when the pin of r is LOW after it, and a GetRelayStatus that follows    *)
(* it reports that same state for r.                                       *)
(***************************************************************************)
Displayed(u, text, r) ==
    \E i \in DOMAIN u.events :
        /\ u.events[i].op = "lcd.message"
        /\ u.events[i].text = text
        /\ u.events[i].relay = r

\* The emoji of the status line(s) that the status query u sent for relay r.
StatusOf(u, r) ==
    {Replies(u)[i].emoji : i \in {j \in DOMAIN Replies(u) : Replies(u)[j].relay = r}}

C9_Polarity ==
    \A r \in RelayIds :
        /\ Toggled(last, r) =>
              LET on == last.post[dict_relay_bcm[r]] = LOW
              IN  /\ Len(Replies(last)) = 1
                  /\ Replies(last)[1].emoji = (IF on THEN em_status_on ELSE em_status_off)
                  /\ Displayed(last, "Act. Relay", r) <=> on
                  /\ Displayed(last, "De Act. Relay", r) <=> ~on
        /\ (Toggled(prev, r) /\ last.cmd = "get_relay_status" /\ last.epoch = prev.epoch) =>
              LET on == prev.post[dict_relay_bcm[r]] = LOW
              IN  /\ StatusOf(last, r) = {Replies(prev)[1].emoji}
                  /\ StatusOf(last, r) = {IF on THEN em_status_on ELSE em_status_off}

\* Relay 3 has been switched on and the status has then been queried.
C9_Witness ==
    /\ Toggled(prev, 3)
    /\ prev.post[dict_relay_bcm[3]] = LOW
    /\ last.cmd = "get_relay_status" /\ last.epoch = prev.epoch

(***************************************************************************)
(* C10.  When bot.polling raises, the run loop runs destroy() and polls    *)
(* again, however many times it has raised before; the only way out of     *)
(* the loop is the operator interrupt, with exit code 0.                   *)
(***************************************************************************)
ShutdownDone ==
    /\ gpio_mode = "UNKNOWN"
    /\ \A p \in Pins : direction[p] = "NONE"
    /\ level = NoLevels
    /\ lcd = << <<"Shutdown...", 0>>, <<"I'm not active", 0>> >>

\* The except clause of main_loop always gets to run.
FairSpec == Spec /\ WF_vars(Recover)

C10_FaultRecovered ==
    /\ [][(pc = "polling" /\ faults' # faults) => pc' = "recovering"]_vars
    /\ [][(pc = "recovering" /\ pc' # "recovering") =>
             /\ ShutdownDone'
             /\ \/ pc' = "polling" /\ exit_code' = -1
                \/ pc' = "exited" /\ exit_code' = 0]_vars
    /\ [](pc = "exited" => exit_code = 0)
    /\ (pc = "recovering") ~> (pc \in {"polling", "exited"})

\* bot.polling has raised as many times as the model counts, and the run loop
\* is polling once more.
C10_Witness ==
    /\ pc = "polling"
    /\ faults = MaxFaults
    /\ ShutdownDone

(***************************************************************************)
(* C11.  KeyboardInterrupt can reach __main__ in every state of the run    *)
(* loop; the process then ends with the shutdown sequence done and exit    *)
(* code 0.  The exited state is terminal, and no raise of bot.polling      *)
(* leads into it.                                                          *)
(***************************************************************************)
RunLoopStates == {"init_relay", "init_lcd", "polling", "sleeping", "recovering"}

C14_OneAckOneReply ==
    (IsToggle(last) /\ ToggleId(last) \in RelayIds) =>
        /\ Len(Acks(last)) = 1
        /\ Len(Replies(last)) = 1

(***************************************************************************)
(* C15.  No update is handled before initialize_relay() and                *)
(* initialize_lcd() have run; when polling starts for the first time the   *)
(* four relay pins are outputs at HIGH and the display shows the banner;   *)
(* the pins set up are the pins of dict_relay_bcm.                         *)
(***************************************************************************)
Banner == << <<"Rasp-Pi Telegram", 0>>, <<"Bot in action...", 0>> >>

C15_InitializedBeforeListening ==
    /\ pc \in {"init_relay", "init_lcd"} => (last = NoUpdate /\ prev = NoUpdate)
    /\ (pc = "polling" /\ faults = 0 /\ last = NoUpdate) =>
          /\ AllRelaysSafe
          /\ lcd = Banner
          /\ mcp_backlight
    /\ (pc = "polling" /\ faults = 0) =>
          \A p \in Pins : direction[p] = "OUT" <=> p \in {dict_relay_bcm[r] : r \in RelayIds}

\* Polling has just started for the first time.
C15_Witness ==
    /\ pc = "polling" /\ faults = 0 /\ last = NoUpdate
    /\ AllRelaysSafe

(***************************************************************************)
(* C16.  Whenever the run loop is polling, every relay pin can be read     *)
(* and written, and neither GetRelayStatus nor a ToggleRelay for a         *)
(* configured id ends with a pin I/O error.                                *)
(***************************************************************************)
C16_PinsUsableWhileListening ==
    /\ pc = "polling" => RelaysReady
    /\ (last.cmd = "get_relay_status" \/ (IsToggle(last) /\ ToggleId(last) \in RelayIds))
          => last.exc # "RuntimeError"

(***************************************************************************)
(* C17.  The handling of Start, Help, SetRelayStatus and GetSchemaDesign   *)
(* writes no pin; Help and GetSchemaDesign send the same single reply      *)
(* whatever the pins are and whatever was handled before.                  *)
(***************************************************************************)
PinFreeCommands == {"start", "help", "set_relay_status", "get_schema_design"}

C18_OtherCallbackIgnored ==
    /\ [][(Handled("callback") /\ ~startswith(last'.data, relay_prefix)) =>
             /\ level' = level
             /\ direction' = direction
             /\ lcd' = lcd
             /\ worker_exc' = worker_exc]_vars
    /\ [](last.cmd = "callback" /\ ~startswith(last.data, relay_prefix) =>
             (last.events = << >> /\ last.exc = "none" /\ last.post = last.pre))

\* A callback that is no relay selection arrived while relay 1 was energized.
C18_Witness ==
    /\ last.cmd = "callback" /\ ~startswith(last.data, relay_prefix)
    /\ last.ready /\ last.pre[dict_relay_bcm[1]] = LOW
    /\ level = last.pre

(***************************************************************************)
(* C19.  When bot.polling returns without raising, nothing is shut down    *)
(* and the run loop sleeps until the operator interrupt; polling starts    *)
(* only after start-up or after the except clause has run for a raise.     *)
(***************************************************************************)
C19_IdleAfterReturn ==
    /\ [][pc = "sleeping" => pc' \in {"sleeping", "exited"}]_vars
    /\ [][(pc = "polling" /\ pc' = "sleeping") =>
             UNCHANGED <<gpio_mode, direction, level, lcd, lcd_backlight, faults>>]_vars
    /\ [][(pc # "polling" /\ pc' = "polling") => pc \in {"init_lcd", "recovering"}]_vars
    /\ [][pc' = "recovering" => (pc = "recovering" \/ faults' = faults + 1)]_vars

\* bot.polling has returned while relay 4 was energized, and the loop sleeps.
C19_Witness ==
    /\ pc = "sleeping"
    /\ RelaysReady /\ level[dict_relay_bcm[4]] = LOW
    /\ lcd # << <<"Shutdown...", 0>>, <<"I'm not active", 0>> >>

(***************************************************************************)
(* C12.  Once a handler has been cut short by a failing pin or display     *)
(* call and bot.polling has raised, the process does not subscribe again.  *)
(***************************************************************************)
HardwareErrors == {"OSError", "RuntimeError"}

C12_HardwareFaultFatal ==
    (last.exc \in HardwareErrors /\ faults > last.epoch) => pc # "polling"

(***************************************************************************)
(* C13.  At most one handler is in progress at any time, and two           *)
(* ToggleRelay(r) handled one after the other leave the pin of r at the    *)
(* level it had before the first.                                          *)
(***************************************************************************)
InProgress == {w \in Workers : workers[w].at # "idle"}

C13_Sequential ==
    /\ Cardinality(InProgress) <= 1
    /\ \A r \in RelayIds :
          (InProgress = {} /\ Toggled(prev, r) /\ Toggled(last, r)) =>
              level[dict_relay_bcm[r]] = prev.pre[dict_relay_bcm[r]]

\* A torn toggle: no handler is in progress, the last two updates were
\* ToggleRelay(2), and the pin of relay 2 is not at the level it had before them.
C13_TornToggle ==
    /\ InProgress = {}
    /\ Toggled(prev, 2) /\ Toggled(last, 2)
    /\ level[dict_relay_bcm[2]] # prev.pre[dict_relay_bcm[2]]

====
